---- MODULE Spec2Model ----
(***************************************************************************)
(* State-machine model of server.py, the FastAPI application of the        *)
(* Chatterbox TTS server: the /tts endpoint (custom_tts_endpoint), the     *)
(* /v1/audio/speech endpoint (openai_speech_endpoint), the /api/performance*)
(* endpoint (get_performance_stats) and the module-level state they share. *)
(*                                                                         *)
(* Scheduling.  uvicorn runs the application with workers=1: one event     *)
(* loop thread runs every handler, and a handler keeps that thread from    *)
(* the moment it is entered or resumed until its next await or its return. *)
(* loop_owner names the handler that currently keeps the thread.  Calls    *)
(* handed to asyncio.to_thread run on the threads of the loop's default    *)
(* ThreadPoolExecutor and interleave freely with the event loop.           *)
(*                                                                         *)
(* Time is counted in ticks of 100 ms.  Floats are modelled as exact       *)
(* fractions <<numerator, denominator>> in lowest terms.                   *)
(***************************************************************************)
EXTENDS Integers, Sequences, FiniteSets, TLC

VARIABLES
    MODEL_LOADED,        \* engine.MODEL_LOADED
    startup,             \* lifespan, startup_complete_event, the browser thread
    file_data,           \* contents of the files of the two voice directories
    uploads,             \* the upload handlers' requests, locals and responses
    audio_processing,    \* the audio_processing.* flags of config_manager
    predefined_files,    \* names of the files in get_predefined_voices_path()
    reference_files,     \* names of the files in get_reference_audio_path()
    request_semaphore,   \* request_semaphore._value
    request_queue,       \* the items of request_queue
    performance_stats,   \* the performance_stats dict
    now,                 \* time.time(), in ticks since startup_time
    cpu_count,           \* os.cpu_count() of the host
    loop_owner,          \* the handler running on the event loop thread
    executor_queue,      \* work queue of the loop's default executor
    pc,                  \* per request: position of its handler
    request,             \* per request: the request body
    locals,              \* per request: the local values of its handler
    jobs,                \* per request: the gathered to_thread calls
    gather_exc,          \* per request: chunk whose exception gather raised
    response,            \* per request: the HTTP response sent
    disconnected,        \* per request: its caller closed the connection
    finalized,           \* history: response_time of every fold, in order
    increments,          \* history: number of executed total_requests += 1
    completed,           \* history, per request: chunks in order of completion
    handler_calls        \* history, per request: what the engine and encoder
                         \* calls made by the handler itself returned

vars == <<MODEL_LOADED, startup, file_data, uploads, audio_processing, predefined_files, reference_files, request_semaphore,
          request_queue, performance_stats, now, cpu_count, loop_owner,
          executor_queue, pc, request, locals, jobs, gather_exc, response,
          disconnected, finalized, increments, completed, handler_calls>>

(***************************************************************************)
(* Bounds of the model.                                                    *)
(***************************************************************************)
MaxReq == 2        \* requests per behaviour of Spec
MaxTime == 2       \* ticks of the clock
MaxChunks == 2     \* chunks per request in SpecChunks
MaxChunkReq == 1   \* requests per behaviour of SpecChunks
MaxInputReq == 1   \* requests per behaviour of SpecInputs
MaxPostReq == 1    \* requests per behaviour of SpecPost
MaxStartupTime == 31   \* seconds of the startup clock of SpecStartup
MaxUploadReq == 2      \* upload requests per behaviour
MaxFiles == 3          \* files uploaded per behaviour, over all requests

(***************************************************************************)
(* Program constants.                                                      *)
(***************************************************************************)
SemaphorePermits == 20     \* asyncio.Semaphore(20)
QueueMaxsize == 100        \* asyncio.Queue(maxsize=100)
ProcessingWorkers == 8     \* ThreadPoolExecutor(max_workers=8)
MinEncodedBytes == 100     \* len(encoded_audio_bytes) < 100
BrowserWaitTimeout == 30   \* startup_complete_event.wait(timeout=30)

NoTask == 0      \* no handler is running on the event loop thread
NoChunk == -1    \* no chunk is named
NoValue == -1    \* None
DefaultVoice == "Olivia.wav"

Min(a, b) == IF a <= b THEN a ELSE b

RECURSIVE Gcd(_, _)
Gcd(a, b) == IF b = 0 THEN a ELSE Gcd(b, a % b)

\* A fraction in lowest terms (denominator > 0, numerator >= 0).
Norm(q) ==
    LET g == Gcd(q[1], q[2])
    IN  IF g = 0 THEN <<0, 1>> ELSE <<q[1] \div g, q[2] \div g>>

Zero == <<0, 1>>

RECURSIVE SumSeq(_)
SumSeq(s) == IF s = <<>> THEN 0 ELSE Head(s) + SumSeq(Tail(s))

(***************************************************************************)
(* The engine.  engine.synthesize(text, ...) returns (tensor, sample_rate),*)
(* returns (None, None), or raises.  A tensor has shape (1, n): one row of *)
(* n samples.                                                              *)
(***************************************************************************)
NoOutcome == [kind |-> "pending", tensor |-> <<>>, sr |-> 0]
EngineNone == [kind |-> "none", tensor |-> <<>>, sr |-> 0]
EngineRaise == [kind |-> "raise", tensor |-> <<>>, sr |-> 0]
EngineOk(row, sr) == [kind |-> "ok", tensor |-> <<row>>, sr |-> sr]

EngineOutcomes(rows, rates) ==
    {EngineNone, EngineRaise} \cup {EngineOk(row, sr) : row \in rows, sr \in rates}

\* tensor.cpu().numpy().squeeze(): every dimension of size 1 is dropped, so
\* a (1, n) tensor becomes a 1-D array of n samples and a (1, 1) tensor a
\* 0-d array.
Squeeze(tensor) ==
    LET row == tensor[1]
    IN  [ndim |-> IF Len(row) = 1 THEN 0 ELSE 1, data |-> row]

RECURSIVE FlatData(_)
FlatData(segs) ==
    IF segs = <<>> THEN <<>> ELSE Head(segs).data \o FlatData(Tail(segs))

\* np.concatenate raises ValueError on a zero-dimensional array.
ConcatRaises(segs) == \E k \in 1..Len(segs) : segs[k].ndim = 0

\* final_audio_np of lines 789-793, when np.concatenate does not raise.
FinalAudio(segs) ==
    IF Len(segs) > 1 THEN [ndim |-> 1, data |-> FlatData(segs)] ELSE segs[1]

NoAudio == [ndim |-> -1, data |-> <<>>]

(***************************************************************************)
(* Text splitting: line 705, text_chunks = [request.text].  A text is a    *)
(* sequence of sentences; the disabled splitter of lines 689-702           *)
(* (utils.chunk_text_by_sentences) made one chunk per sentence group.      *)
(***************************************************************************)
TextChunks(text) == <<text>>

ChunkTextBySentences(text) == [k \in 1..Len(text) |-> <<text[k]>>]

\* Mutation of IsEmpty: no list is taken as empty.
IsEmptyNever(list) == FALSE

\* "not <list>" of lines 708 and 777: the list has no element.
IsEmpty(list) == list = <<>>

(***************************************************************************)
(* Responses.  status 0: none sent yet.  chunk: the chunk number the error *)
(* detail names (NoChunk when it names none).  format: the output format   *)
(* the error detail names ("" when it names none).                         *)
(***************************************************************************)
NoResponse ==
    [status |-> 0, detail |-> "", chunk |-> NoChunk, format |-> "",
     media_type |-> "", audio |-> NoAudio, sample_rate |-> 0, size |-> 0]

ErrorResponse(status, detail, chunk) ==
    [status |-> status, detail |-> detail, chunk |-> chunk, format |-> "",
     media_type |-> "", audio |-> NoAudio, sample_rate |-> 0, size |-> 0]

\* Lines 843-846: "Failed to encode audio to {output_format_str} or
\* generated invalid audio."
EncodeErrorResponse(fmt) ==
    [ErrorResponse(500, "encode_failed", NoChunk) EXCEPT !.format = fmt]

StreamingResponse(fmt, audio, sr, size) ==
    [status |-> 200, detail |-> "", chunk |-> NoChunk, format |-> "",
     media_type |-> fmt, audio |-> audio, sample_rate |-> sr, size |-> size]

(***************************************************************************)
(* performance_stats.                                                      *)
(***************************************************************************)
InitialStats ==
    [total_requests |-> 0, avg_response_time |-> Zero,
     concurrent_requests |-> 0, queue_size |-> 0, uptime |-> NoValue]

\* Line 654, the store of performance_stats["total_requests"] += 1.
StoreTotal(stats, read) == [stats EXCEPT !.total_requests = read + 1]

\* Lines 858-861: (avg * (total_requests - 1) + response_time) / total_requests.
FoldAvg(avg, total_requests, response_time) ==
    Norm(<<avg[1] * (total_requests - 1) + response_time * avg[2],
           avg[2] * total_requests>>)

\* Line 858, the store of performance_stats["avg_response_time"].
StoreAvg(stats, loc) ==
    [stats EXCEPT !.avg_response_time =
        FoldAvg(loc.avg_response_time, loc.total_requests, loc.response_time)]

\* No engine call, no encoder call and no post-processing call of utils
\* (post) made by the handler.
NoCalls == [engine |-> <<>>, encoder |-> <<>>, post |-> <<>>]

\* The locals of a handler that is not running.
NoLocals ==
    [start_time |-> NoValue, total_requests |-> NoValue,
     avg_response_time |-> Zero, response_time |-> NoValue,
     encoded_audio_bytes |-> NoValue]

\* Lines 268-272.
UpdateStats(stats) ==
    [stats EXCEPT !.queue_size = Len(request_queue),
                  !.concurrent_requests = request_semaphore,
                  !.uptime = now]

(***************************************************************************)
(* The default executor of the event loop, which asyncio.to_thread uses    *)
(* (line 715): ThreadPoolExecutor() with max_workers = min(32, cpus + 4).  *)
(***************************************************************************)
DefaultMaxWorkers == Min(32, cpu_count + 4)

Req == DOMAIN pc

\* Mutation of ModelLoaded: the handlers take the model as loaded.
ModelLoadedAssumed == TRUE

\* engine.MODEL_LOADED as the handlers read it (lines 661, 891).
ModelLoaded == MODEL_LOADED

Running(r) == {i \in DOMAIN jobs[r] : jobs[r][i].state = "running"}

\* The engine calls executing on executor threads.
WorkerCalls == UNION {{<<r, i>> : i \in Running(r)} : r \in Req}

\* Requests are numbered in order of arrival.
NextToArrive(r) == pc[r] = "idle" /\ (IF r = 1 THEN TRUE ELSE pc[r - 1] # "idle")

QueuedJob == [state |-> "queued", out |-> NoOutcome]

\* Mutation of LoopAfterRead: the handler gives up the event loop thread
\* between the load and the store, as an await between them would.
LoopReleasedAfterRead(r) == NoTask

\* The handler that keeps the event loop thread between the load and the
\* store of a read-modify-write of performance_stats (line 654, lines
\* 858-861): no await separates them.
LoopAfterRead(r) == r

(***************************************************************************)
(* /tts, lines 653-654: start_time = time.time(), and the load of          *)
(* performance_stats["total_requests"] += 1.                               *)
(***************************************************************************)
\* Requests are handled once lifespan has yielded.
AcceptingRequests == startup.lifespan = "serving"

TtsEnter(r, req) ==
    /\ AcceptingRequests
    /\ NextToArrive(r)
    /\ loop_owner = NoTask
    /\ pc' = [pc EXCEPT ![r] = "tts_read"]
    /\ request' = [request EXCEPT ![r] = req]
    /\ locals' = [locals EXCEPT ![r] =
                    [NoLocals EXCEPT !.start_time = now,
                                     !.total_requests = performance_stats.total_requests]]
    /\ loop_owner' = LoopAfterRead(r)
    /\ UNCHANGED <<MODEL_LOADED, startup, file_data, uploads, audio_processing, disconnected, handler_calls, predefined_files, reference_files,
                   request_semaphore, request_queue, performance_stats, now,
                   cpu_count, executor_queue, jobs, gather_exc, response,
                   finalized, increments, completed>>

\* The handler returns or raises: its response is sent, its locals die and
\* the event loop thread is free again.
Finish(r, resp) ==
    /\ pc' = [pc EXCEPT ![r] = "done"]
    /\ response' = [response EXCEPT ![r] = resp]
    /\ locals' = [locals EXCEPT ![r] = NoLocals]
    /\ loop_owner' = NoTask

(***************************************************************************)
(* /tts, lines 654-746: the store of the += 1, the model and default voice *)
(* checks, text_chunks, and the gather of one to_thread call per chunk,    *)
(* at which the handler suspends.                                          *)
(***************************************************************************)
TtsAdmit(r, text_chunks) ==
    /\ pc[r] = "tts_read"
    /\ loop_owner \in {r, NoTask}
    /\ performance_stats' = StoreTotal(performance_stats, locals[r].total_requests)
    /\ increments' = increments + 1
    /\ IF ~ModelLoaded
         THEN /\ Finish(r, ErrorResponse(503, "model_not_loaded", NoChunk))
              /\ UNCHANGED <<jobs, executor_queue>>
       ELSE IF DefaultVoice \notin predefined_files
         THEN /\ Finish(r, ErrorResponse(500, "default_voice_missing", NoChunk))
              /\ UNCHANGED <<jobs, executor_queue>>
       ELSE IF IsEmpty(text_chunks)
         THEN /\ Finish(r, ErrorResponse(400, "no_usable_chunks", NoChunk))
              /\ UNCHANGED <<jobs, executor_queue>>
       ELSE /\ jobs' = [jobs EXCEPT ![r] = [i \in 1..Len(text_chunks) |-> QueuedJob]]
            /\ executor_queue' =
                 executor_queue \o [i \in 1..Len(text_chunks) |-> <<r, i>>]
            /\ pc' = [pc EXCEPT ![r] = "tts_await"]
            /\ loop_owner' = NoTask
            /\ UNCHANGED <<response, locals>>
    /\ UNCHANGED <<MODEL_LOADED, startup, file_data, uploads, audio_processing, disconnected, handler_calls, predefined_files, reference_files,
                   request_semaphore, request_queue, now, cpu_count, request,
                   gather_exc, finalized, completed>>

(***************************************************************************)
(* A thread of the default executor takes the oldest queued call and       *)
(* enters engine.synthesize.                                               *)
(***************************************************************************)
WorkerStart ==
    /\ executor_queue # <<>>
    /\ Cardinality(WorkerCalls) < DefaultMaxWorkers
    /\ LET r == Head(executor_queue)[1]
           i == Head(executor_queue)[2]
       IN  jobs' = [jobs EXCEPT ![r][i].state = "running"]
    /\ executor_queue' = Tail(executor_queue)
    /\ UNCHANGED <<MODEL_LOADED, startup, file_data, uploads, audio_processing, disconnected, handler_calls, predefined_files, reference_files,
                   request_semaphore, request_queue, performance_stats, now,
                   cpu_count, loop_owner, pc, request, locals,
                   gather_exc, response, finalized, increments, completed>>

(***************************************************************************)
(* engine.synthesize ends on its thread.  gather (line 744, without        *)
(* return_exceptions) raises the first exception to arrive into the        *)
(* waiting handler; the other calls run on.                                *)
(***************************************************************************)
WorkerFinish(r, i, out) ==
    /\ i \in Running(r)
    /\ jobs' = [jobs EXCEPT ![r][i] = [state |-> "done", out |-> out]]
    /\ gather_exc' =
         IF out.kind = "raise" /\ pc[r] = "tts_await" /\ gather_exc[r] = NoChunk
         THEN [gather_exc EXCEPT ![r] = i]
         ELSE gather_exc
    /\ completed' = [completed EXCEPT ![r] = Append(@, i)]
    /\ UNCHANGED <<MODEL_LOADED, startup, file_data, uploads, audio_processing, disconnected, handler_calls, predefined_files, reference_files,
                   request_semaphore, request_queue, performance_stats, now,
                   cpu_count, loop_owner, executor_queue, pc, request,
                   locals, response, finalized, increments>>

(***************************************************************************)
(* /tts, lines 744-861: gather returns or raises, and the handler runs on  *)
(* the event loop thread to its HTTPException or to the loads of lines     *)
(* 858-860.  encoded_len is what the encoder of utils returns: NoValue for *)
(* None, else the length of its bytes.                                     *)
(***************************************************************************)
AllDone(r) == \A i \in DOMAIN jobs[r] : jobs[r][i].state = "done"

\* Mutation of ChunkResults: the results in the order the calls completed,
\* as asyncio.as_completed would give them.
ChunkResultsByCompletion(r) ==
    [k \in DOMAIN jobs[r] |->
        IF k <= Len(completed[r]) THEN jobs[r][completed[r][k]].out
        ELSE jobs[r][k].out]

\* Lines 744-746: gather returns the results in the order of its arguments.
ChunkResults(r) == [i \in DOMAIN jobs[r] |-> jobs[r][i].out]

\* Lines 749-753: the chunks whose result is (None, None), as 0-based
\* indices of chunk_results.
FailedChunks(r) ==
    {i - 1 : i \in {k \in DOMAIN ChunkResults(r) : ChunkResults(r)[k].kind = "none"}}

FirstFailed(r) == CHOOSE i \in FailedChunks(r) : \A k \in FailedChunks(r) : i <= k

\* Line 751: the chunk number in the error detail of chunk i.
ChunkLabel(i) == i + 1

\* Lines 748, 774-775: all_audio_segments_np.
AudioSegments(r) ==
    [i \in DOMAIN ChunkResults(r) |-> Squeeze(ChunkResults(r)[i].tensor)]

\* Mutation of EngineOutputSampleRate: every chunk overwrites the rate, so
\* the rate of the last chunk is kept.
EngineOutputSampleRateLast(r) == ChunkResults(r)[Len(ChunkResults(r))].sr

\* Lines 684, 754-760: engine_output_sample_rate starts as None and is
\* assigned once, from the first chunk; a later chunk with another rate is
\* only logged.
EngineOutputSampleRate(r) ==
    IF ChunkResults(r) = <<>> THEN NoValue ELSE ChunkResults(r)[1].sr

\* Mutation of OutputFormatStr: the format of the request is not read.
OutputFormatStrDefault(req) == "wav"

\* Lines 816-818.
OutputFormatStr(req) == IF req.output_format # "" THEN req.output_format ELSE "wav"

\* str.lower() (line 821) on the format names of the model.
Lower(str) == IF str = "WAV" THEN "wav" ELSE str

\* What the encoder can return for audio that it is able to encode: None
\* (NoValue) or the length of its bytes.
EncoderResults == {NoValue, 99, 100}

\* The formats the encoder recognizes.
EncoderFormats == {"wav", "opus", "mp3"}

\* utils.encode_audio_optimized(output_format=fmt): an unrecognized
\* format makes the encoder fail.
EncodeAudioOptimized(fmt) ==
    IF fmt \in EncoderFormats THEN EncoderResults ELSE {NoValue}

\* Lines 821-833: the WAV encoder when the lower-cased format is "wav",
\* else the encoder of the named format.
EncodedAudioBytes(fmt) ==
    IF Lower(fmt) = "wav" THEN EncoderResults ELSE EncodeAudioOptimized(fmt)

\* Mutation of EncodingFailed: only a missing payload counts as a failure.
EncodingFailedNoneOnly(encoded_len) == encoded_len = NoValue

\* Line 839.
EncodingFailed(encoded_len) == encoded_len = NoValue \/ encoded_len < MinEncodedBytes

\* The post-processing calls of /tts, in order: none.  The speed factor of
\* lines 761-772 and the silence trimming and internal silence fix of
\* lines 796-806 are commented out.
TtsPostProcessing(req) == <<>>

\* The encoder of the handler of r returned encoded_len, after the
\* post-processing calls of the handler.
EncoderReturned(r, encoded_len) ==
    handler_calls' = [handler_calls EXCEPT ![r].encoder = <<encoded_len>>,
                                           ![r].post = TtsPostProcessing(request[r])]

TtsResume(r, encoded_len) ==
    /\ pc[r] = "tts_await"
    /\ loop_owner = NoTask
    /\ encoded_len \in EncodedAudioBytes(OutputFormatStr(request[r]))
    /\ gather_exc[r] # NoChunk \/ AllDone(r)
    /\ IF gather_exc[r] # NoChunk
         THEN /\ Finish(r, ErrorResponse(500, "internal_server_error", NoChunk))
              /\ UNCHANGED handler_calls
       ELSE IF FailedChunks(r) # {}
         THEN /\ Finish(r, ErrorResponse(500, "chunk_failed", ChunkLabel(FirstFailed(r))))
              /\ UNCHANGED handler_calls
       ELSE IF IsEmpty(AudioSegments(r))
         THEN /\ Finish(r, ErrorResponse(500, "no_output", NoChunk))
              /\ UNCHANGED handler_calls
       ELSE IF EngineOutputSampleRate(r) = NoValue
         THEN /\ Finish(r, ErrorResponse(500, "sample_rate_undetermined", NoChunk))
              /\ UNCHANGED handler_calls
       ELSE IF Len(AudioSegments(r)) > 1 /\ ConcatRaises(AudioSegments(r))
         THEN /\ Finish(r, ErrorResponse(500, "concatenation_error", NoChunk))
              /\ UNCHANGED handler_calls
       ELSE IF EncodingFailed(encoded_len)
         THEN /\ Finish(r, EncodeErrorResponse(OutputFormatStr(request[r])))
              /\ EncoderReturned(r, encoded_len)
       ELSE /\ locals' = [locals EXCEPT ![r] =
                 [@ EXCEPT !.encoded_audio_bytes = encoded_len,
                           !.response_time = now - locals[r].start_time,
                           !.avg_response_time = performance_stats.avg_response_time,
                           !.total_requests = performance_stats.total_requests]]
            /\ pc' = [pc EXCEPT ![r] = "tts_fold"]
            /\ loop_owner' = LoopAfterRead(r)
            /\ EncoderReturned(r, encoded_len)
            /\ UNCHANGED response
    /\ UNCHANGED <<MODEL_LOADED, startup, file_data, uploads, audio_processing, disconnected, predefined_files, reference_files,
                   request_semaphore, request_queue, performance_stats, now,
                   cpu_count, executor_queue, request, jobs, gather_exc,
                   finalized, increments, completed>>

(***************************************************************************)
(* /tts, lines 858-870: the store of avg_response_time and the return of   *)
(* the StreamingResponse.                                                  *)
(***************************************************************************)
TtsFold(r) ==
    /\ pc[r] = "tts_fold"
    /\ loop_owner \in {r, NoTask}
    /\ performance_stats' = StoreAvg(performance_stats, locals[r])
    /\ finalized' = Append(finalized, [response_time |-> locals[r].response_time,
                                       n |-> locals[r].total_requests])
    /\ Finish(r, StreamingResponse(OutputFormatStr(request[r]),
                                   FinalAudio(AudioSegments(r)),
                                   EngineOutputSampleRate(r),
                                   locals[r].encoded_audio_bytes))
    /\ UNCHANGED <<MODEL_LOADED, startup, file_data, uploads, audio_processing, disconnected, handler_calls, predefined_files, reference_files,
                   request_semaphore, request_queue, now, cpu_count,
                   executor_queue, request, jobs, gather_exc, increments,
                   completed>>

(***************************************************************************)
(* /api/performance, lines 262-285.                                        *)
(***************************************************************************)
GetPerformanceStats ==
    /\ AcceptingRequests
    /\ loop_owner = NoTask
    /\ performance_stats' = UpdateStats(performance_stats)
    /\ UNCHANGED <<MODEL_LOADED, startup, file_data, uploads, audio_processing, disconnected, handler_calls, predefined_files, reference_files,
                   request_semaphore, request_queue, now, cpu_count, loop_owner,
                   executor_queue, pc, request, locals, jobs,
                   gather_exc, response, finalized, increments, completed>>

(***************************************************************************)
(* /v1/audio/speech, lines 873-948.  engine.synthesize is called in the    *)
(* handler itself (line 904): the handler keeps the event loop thread      *)
(* while the engine runs.                                                  *)
(***************************************************************************)
OpenaiEnter(r, req) ==
    /\ AcceptingRequests
    /\ NextToArrive(r)
    /\ loop_owner = NoTask
    /\ request' = [request EXCEPT ![r] = req]
    /\ IF req.voice \notin predefined_files /\ req.voice \notin reference_files
         THEN Finish(r, ErrorResponse(404, "voice_not_found", NoChunk))
       ELSE IF ~ModelLoaded
         THEN Finish(r, ErrorResponse(503, "model_not_loaded", NoChunk))
       ELSE /\ pc' = [pc EXCEPT ![r] = "openai_engine"]
            /\ loop_owner' = r
            /\ UNCHANGED <<response, locals>>
    /\ UNCHANGED <<MODEL_LOADED, startup, file_data, uploads, audio_processing, disconnected, handler_calls, predefined_files, reference_files,
                   request_semaphore, request_queue, performance_stats, now,
                   cpu_count, executor_queue, jobs, gather_exc, finalized,
                   increments, completed>>

\* Lines 918-920: the post-processing calls of /v1/audio/speech, in order:
\* utils.apply_speed_factor when request.speed != 1.0, and nothing else.
OpenaiPostProcessing(req) ==
    IF req.speed # 1 THEN <<"apply_speed_factor">> ELSE <<>>

\* Lines 904-948: the engine returns into the handler, which encodes with
\* utils.encode_audio and answers; every exception of the try block,
\* the HTTPException of line 914 included, is answered with status 500.
OpenaiReturn(r, out, encoded_len) ==
    /\ pc[r] = "openai_engine"
    /\ loop_owner = r
    /\ IF out.kind = "raise"
         THEN Finish(r, ErrorResponse(500, "engine_exception", NoChunk))
       ELSE IF out.kind = "none"
         THEN Finish(r, ErrorResponse(500, "synthesis_failed", NoChunk))
       ELSE IF encoded_len = NoValue
         THEN Finish(r, ErrorResponse(500, "encode_failed", NoChunk))
       ELSE Finish(r, StreamingResponse(request[r].response_format,
                                        Squeeze(out.tensor), out.sr, encoded_len))
    /\ handler_calls' = [handler_calls EXCEPT ![r] =
          [engine |-> <<out.kind>>,
           encoder |-> IF out.kind = "ok" THEN <<encoded_len>> ELSE <<>>,
           post |-> IF out.kind = "ok" THEN OpenaiPostProcessing(request[r]) ELSE <<>>]]
    /\ UNCHANGED <<MODEL_LOADED, startup, file_data, uploads, audio_processing, disconnected, predefined_files, reference_files,
                   request_semaphore, request_queue, performance_stats, now,
                   cpu_count, executor_queue, request, jobs, gather_exc,
                   finalized, increments, completed>>

\* The event-loop thread is inside engine.synthesize.
LoopEngineCalls == {r \in Req : pc[r] = "openai_engine"}

(***************************************************************************)
(* The caller of a request in progress closes its connection.  The         *)
(* handlers take no Request object and never look for a disconnect         *)
(* (lines 644-646, 874): the handler of the request runs on.               *)
(***************************************************************************)
ClientDisconnect(r) ==
    /\ pc[r] \notin {"idle", "done"}
    /\ ~disconnected[r]
    /\ disconnected' = [disconnected EXCEPT ![r] = TRUE]
    /\ UNCHANGED <<MODEL_LOADED, startup, file_data, uploads, audio_processing, predefined_files, reference_files,
                   request_semaphore, request_queue, performance_stats, now,
                   cpu_count, loop_owner, executor_queue, pc, request,
                   locals, jobs, gather_exc, response, handler_calls,
                   finalized, increments, completed>>

(***************************************************************************)
(* Time passes.                                                            *)
(***************************************************************************)
Tick ==
    /\ now < MaxTime
    /\ now' = now + 1
    /\ UNCHANGED <<MODEL_LOADED, startup, file_data, uploads, audio_processing, disconnected, handler_calls, predefined_files, reference_files,
                   request_semaphore, request_queue, performance_stats,
                   cpu_count, loop_owner, executor_queue, pc, request,
                   locals, jobs, gather_exc, response,
                   finalized, increments, completed>>

(***************************************************************************)
(* Inputs.                                                                 *)
(***************************************************************************)
NoRequest == [endpoint |-> ""]

\* The body of a /tts request: its text, the voice file it names (voice_mode
\* with its file name) and its output_format ("" when it gives none).
CustomTTSRequest(text, voice, fmt) ==
    [endpoint |-> "/tts", text |-> text, voice |-> voice, output_format |-> fmt,
     speed_factor |-> 1]

TtsRequest(text, fmt) == CustomTTSRequest(text, DefaultVoice, fmt)

\* speed is 1.0 unless a specification sets another factor.
OpenaiRequest(text, voice, fmt) ==
    [endpoint |-> "/v1/audio/speech", input |-> text, voice |-> voice,
     response_format |-> fmt, speed |-> 1]

\* Texts of 0..n sentences.
Texts(n) == {[k \in 1..m |-> "s"] : m \in 0..n}

TtsRequests == {TtsRequest(<<"s", "s">>, fmt) : fmt \in {"", "opus"}}

ChunkRequests == {TtsRequest(text, "wav") : text \in Texts(MaxChunks)}

OpenaiRequests ==
    {OpenaiRequest(<<"s">>, voice, "opus") : voice \in {DefaultVoice, "ghost.wav"}}

Rows == {<<1, 2>>}
\* Results of the chunk calls of SpecChunks: failures, and two results that
\* differ in their samples and in their sample rate.
ChunkOutcomes ==
    {EngineNone, EngineRaise, EngineOk(<<1, 2>>, 24000), EngineOk(<<3, 4>>, 22050)}
Rates == {24000}

(***************************************************************************)
(* The state once the application serves requests: the module-level        *)
(* assignments of lines 113-129, and a model that lifespan loaded or       *)
(* failed to load.                                                         *)
(***************************************************************************)
\* The startup state once lifespan has yielded: the event is set and the
\* browser thread, if one was started, is not followed further.
Serving ==
    [lifespan |-> "serving", event |-> TRUE, browser |-> "none", clock |-> 0,
     wait_start |-> 0, timed_out |-> FALSE, opened |-> 0]

\* config_manager.get_bool(..., False): both flags are off unless the
\* configuration file turns them on.
DefaultProcessing ==
    [enable_silence_trimming |-> FALSE, enable_internal_silence_fix |-> FALSE]

\* The contents of a voice file that was in its directory at startup.
Shipped == [request |-> 0, item |-> 0]

\* An upload request that has not arrived.
NoUpload ==
    [pc |-> "idle", endpoint |-> "", files |-> 0, log |-> <<>>,
     uploaded_filenames_successfully |-> <<>>, upload_errors |-> <<>>,
     status_code |-> 0]

\* The startup state when lifespan is entered: the event is clear and no
\* browser thread exists.
NotStarted ==
    [lifespan |-> "paths", event |-> FALSE, browser |-> "none", clock |-> 0,
     wait_start |-> 0, timed_out |-> FALSE, opened |-> 0]

InitState(start, n, loaded, voice_dirs, cpus, processing) ==
    /\ MODEL_LOADED \in loaded
    /\ startup = start
    /\ uploads = [u \in 1..MaxUploadReq |-> NoUpload]
    /\ audio_processing \in processing
    /\ predefined_files \in voice_dirs
    /\ reference_files = {}
    /\ file_data = [reference_audio |-> <<>>,
                    predefined_voices |-> [name \in predefined_files |-> Shipped]]
    /\ request_semaphore = SemaphorePermits
    /\ request_queue = <<>>
    /\ performance_stats = InitialStats
    /\ now = 0
    /\ cpu_count \in cpus
    /\ loop_owner = NoTask
    /\ executor_queue = <<>>
    /\ pc = [r \in 1..n |-> "idle"]
    /\ request = [r \in 1..n |-> NoRequest]
    /\ locals = [r \in 1..n |-> NoLocals]
    /\ jobs = [r \in 1..n |-> <<>>]
    /\ gather_exc = [r \in 1..n |-> NoChunk]
    /\ response = [r \in 1..n |-> NoResponse]
    /\ disconnected = [r \in 1..n |-> FALSE]
    /\ finalized = <<>>
    /\ increments = 0
    /\ completed = [r \in 1..n |-> <<>>]
    /\ handler_calls = [r \in 1..n |-> NoCalls]

InitConfigured(n, loaded, voice_dirs, cpus, processing) ==
    InitState(Serving, n, loaded, voice_dirs, cpus, processing)

InitWith(n, loaded, voice_dirs, cpus) ==
    InitConfigured(n, loaded, voice_dirs, cpus, {DefaultProcessing})

Init == InitWith(MaxReq, BOOLEAN, {{}, {DefaultVoice}}, {4})

Next ==
    \/ \E r \in Req, req \in TtsRequests : TtsEnter(r, req)
    \/ \E r \in Req : TtsAdmit(r, TextChunks(request[r].text))
    \/ WorkerStart
    \/ \E r \in Req : \E i \in Running(r), out \in EngineOutcomes(Rows, Rates) :
          WorkerFinish(r, i, out)
    \/ \E r \in Req, encoded_len \in EncoderResults : TtsResume(r, encoded_len)
    \/ \E r \in Req : TtsFold(r)
    \/ GetPerformanceStats
    \/ \E r \in Req, req \in OpenaiRequests : OpenaiEnter(r, req)
    \/ \E r \in Req, out \in EngineOutcomes(Rows, Rates),
          encoded_len \in EncoderResults : OpenaiReturn(r, out, encoded_len)
    \/ Tick

Spec == Init /\ [][Next]_vars

(***************************************************************************)
(* SpecChunks: lines 713-870 on a text_chunks list of 0..MaxChunks chunks, *)
(* as the splitter of lines 689-702 produced it.  The served endpoint      *)
(* (Spec) always has exactly one chunk.                                    *)
(***************************************************************************)
InitChunks == InitWith(MaxChunkReq, {TRUE}, {{DefaultVoice}}, {1})

NextChunks ==
    \/ \E r \in Req, req \in ChunkRequests : TtsEnter(r, req)
    \/ \E r \in Req : TtsAdmit(r, ChunkTextBySentences(request[r].text))
    \/ WorkerStart
    \/ \E r \in Req : \E i \in Running(r), out \in ChunkOutcomes :
          WorkerFinish(r, i, out)
    \/ \E r \in Req, encoded_len \in EncoderResults : TtsResume(r, encoded_len)
    \/ \E r \in Req : TtsFold(r)

SpecChunks == InitChunks /\ [][NextChunks]_vars

(***************************************************************************)
(* SpecLoad: a burst of /tts requests that arrive while no engine call     *)
(* returns, on a host with 1 or 8 CPUs.                                    *)
(***************************************************************************)
MaxLoad == SemaphorePermits + QueueMaxsize + 1

HostCpus == {1, 8}

InitLoad == InitWith(MaxLoad, {TRUE}, {{DefaultVoice}}, HostCpus)

NextLoad ==
    \/ \E r \in Req : TtsEnter(r, TtsRequest(<<"s">>, "wav"))
    \/ \E r \in Req : TtsAdmit(r, TextChunks(request[r].text))
    \/ WorkerStart
    \/ GetPerformanceStats

SpecLoad == InitLoad /\ [][NextLoad]_vars

(***************************************************************************)
(* SpecInputs: the served endpoints on requests that name a known or an    *)
(* unknown voice and every kind of output format, with the clock stopped.  *)
(***************************************************************************)
Voices == {DefaultVoice, "ghost.wav"}

InputTtsRequests ==
    {CustomTTSRequest(<<"s">>, voice, fmt) :
        voice \in Voices, fmt \in {"", "wav", "WAV", "opus", "flac"}}

\* response_format is a Literal["wav", "opus", "mp3"] (line 82).
InputOpenaiRequests ==
    {OpenaiRequest(<<"s">>, voice, fmt) :
        voice \in Voices, fmt \in {"wav", "opus", "mp3"}}

InitInputs == InitWith(MaxInputReq, BOOLEAN, {{}, {DefaultVoice}}, {4})

NextInputs ==
    \/ \E r \in Req, req \in InputTtsRequests : TtsEnter(r, req)
    \/ \E r \in Req : TtsAdmit(r, TextChunks(request[r].text))
    \/ WorkerStart
    \/ \E r \in Req : \E i \in Running(r), out \in EngineOutcomes(Rows, Rates) :
          WorkerFinish(r, i, out)
    \/ \E r \in Req, encoded_len \in EncoderResults : TtsResume(r, encoded_len)
    \/ \E r \in Req : TtsFold(r)
    \/ GetPerformanceStats
    \/ \E r \in Req, req \in InputOpenaiRequests : OpenaiEnter(r, req)
    \/ \E r \in Req, out \in EngineOutcomes(Rows, Rates),
          encoded_len \in EncoderResults : OpenaiReturn(r, out, encoded_len)

SpecInputs == InitInputs /\ [][NextInputs]_vars

(***************************************************************************)
(* SpecPost: the served endpoints on requests with a speed factor of 1.0   *)
(* or 2.0, under every setting of the audio_processing flags.              *)
(***************************************************************************)
Speeds == {1, 2}

PostTtsRequests ==
    {[CustomTTSRequest(<<"s">>, DefaultVoice, "wav") EXCEPT !.speed_factor = f] :
        f \in Speeds}

PostOpenaiRequests ==
    {[OpenaiRequest(<<"s">>, DefaultVoice, "wav") EXCEPT !.speed = f] : f \in Speeds}

Processings ==
    [enable_silence_trimming : BOOLEAN, enable_internal_silence_fix : BOOLEAN]

InitPost ==
    InitConfigured(MaxPostReq, {TRUE}, {{DefaultVoice}}, {4}, Processings)

NextPost ==
    \/ \E r \in Req, req \in PostTtsRequests : TtsEnter(r, req)
    \/ \E r \in Req : TtsAdmit(r, TextChunks(request[r].text))
    \/ WorkerStart
    \/ \E r \in Req : \E i \in Running(r), out \in EngineOutcomes(Rows, Rates) :
          WorkerFinish(r, i, out)
    \/ \E r \in Req, encoded_len \in EncoderResults : TtsResume(r, encoded_len)
    \/ \E r \in Req : TtsFold(r)
    \/ \E r \in Req, req \in PostOpenaiRequests : OpenaiEnter(r, req)
    \/ \E r \in Req, out \in EngineOutcomes(Rows, Rates),
          encoded_len \in EncoderResults : OpenaiReturn(r, out, encoded_len)

SpecPost == InitPost /\ [][NextPost]_vars

(***************************************************************************)
(* SpecCancel: SemaphorePermits + 1 /tts requests arrive while no engine   *)
(* call returns, on a host with 8 or 28 CPUs (12 or 32 executor threads);  *)
(* the callers of the requests beyond the first SemaphorePermits may       *)
(* disconnect.                                                             *)
(***************************************************************************)
MaxCancel == SemaphorePermits + 1

CancelCpus == {8, 28}

InitCancel == InitWith(MaxCancel, {TRUE}, {{DefaultVoice}}, CancelCpus)

NextCancel ==
    \/ \E r \in Req : TtsEnter(r, TtsRequest(<<"s">>, "wav"))
    \/ \E r \in Req : TtsAdmit(r, TextChunks(request[r].text))
    \/ WorkerStart
    \/ \E r \in Req : r > SemaphorePermits /\ ClientDisconnect(r)

SpecCancel == InitCancel /\ [][NextCancel]_vars

(***************************************************************************)
(* Startup: lifespan up to its yield, and the thread it starts to open the *)
(* browser.  The two run on different threads; each action is one call.    *)
(* startup.clock counts seconds since lifespan was entered.                *)
(***************************************************************************)
serving_vars ==
    <<file_data, uploads, audio_processing, predefined_files, reference_files, request_semaphore,
      request_queue, performance_stats, now, cpu_count, loop_owner,
      executor_queue, pc, request, locals, jobs, gather_exc, response,
      disconnected, finalized, increments, completed, handler_calls>>

\* for p in paths_to_ensure: p.mkdir(parents=True, exist_ok=True)
LifespanEnsurePaths(ok) ==
    /\ startup.lifespan = "paths"
    /\ startup' = [startup EXCEPT !.lifespan = IF ok THEN "load" ELSE "except"]
    /\ UNCHANGED <<MODEL_LOADED, serving_vars>>

LoadResults == {"loaded", "failed", "raised"}

\* if not engine.load_model(): ... else: ...
LifespanLoadModel(result) ==
    /\ startup.lifespan = "load"
    /\ MODEL_LOADED' = (result = "loaded")
    /\ startup' = [startup EXCEPT !.lifespan =
                      CASE result = "loaded" -> "thread"
                        [] result = "failed" -> "set"
                        [] OTHER -> "except"]
    /\ UNCHANGED serving_vars

\* browser_thread.start(): _delayed_browser_open begins its wait.
LifespanStartBrowserThread ==
    /\ startup.lifespan = "thread"
    /\ startup' = [startup EXCEPT !.lifespan = "set", !.browser = "wait",
                                   !.wait_start = startup.clock]
    /\ UNCHANGED <<MODEL_LOADED, serving_vars>>

\* startup_complete_event.set()
SetEvent(s) == [s EXCEPT !.event = TRUE]

\* The set() of the try block and the set() of the except block.
LifespanSetEvent ==
    /\ startup.lifespan \in {"set", "except"}
    /\ startup' = [SetEvent(startup) EXCEPT !.lifespan = "yield"]
    /\ UNCHANGED <<MODEL_LOADED, serving_vars>>

\* yield: the application starts serving.
LifespanYield ==
    /\ startup.lifespan = "yield"
    /\ startup' = [startup EXCEPT !.lifespan = "serving"]
    /\ UNCHANGED <<MODEL_LOADED, serving_vars>>

\* startup_complete_event.wait(timeout=30) returns: the event is set, or
\* the timeout has elapsed with the event clear.
BrowserWaitReturns ==
    /\ startup.browser = "wait"
    /\ \/ startup.event
       \/ startup.clock - startup.wait_start >= BrowserWaitTimeout
    /\ startup' = [startup EXCEPT !.browser = "is_set",
                                   !.timed_out = ~startup.event]
    /\ UNCHANGED <<MODEL_LOADED, serving_vars>>

\* if not startup_complete_event.is_set(): ... return
BrowserIsSet ==
    /\ startup.browser = "is_set"
    /\ startup' = [startup EXCEPT !.browser =
                      IF startup.event THEN "sleep" ELSE "returned"]
    /\ UNCHANGED <<MODEL_LOADED, serving_vars>>

\* time.sleep(1.5); webbrowser.open(browser_url)
BrowserOpen ==
    /\ startup.browser = "sleep"
    /\ startup' = [startup EXCEPT !.browser = "returned",
                                   !.opened = startup.opened + 1]
    /\ UNCHANGED <<MODEL_LOADED, serving_vars>>

StartupTick ==
    /\ startup.clock < MaxStartupTime
    /\ startup' = [startup EXCEPT !.clock = startup.clock + 1]
    /\ UNCHANGED <<MODEL_LOADED, serving_vars>>

(***************************************************************************)
(* SpecStartup: the application starts, then serves one request.           *)
(***************************************************************************)
InitStartup ==
    InitState(NotStarted, 1, {FALSE}, {{DefaultVoice}}, {4}, {DefaultProcessing})

NextStartup ==
    \/ \E ok \in BOOLEAN : LifespanEnsurePaths(ok)
    \/ \E result \in LoadResults : LifespanLoadModel(result)
    \/ LifespanStartBrowserThread
    \/ LifespanSetEvent
    \/ LifespanYield
    \/ BrowserWaitReturns
    \/ BrowserIsSet
    \/ BrowserOpen
    \/ StartupTick
    \/ \E r \in Req : OpenaiEnter(r, OpenaiRequest(<<"s">>, DefaultVoice, "wav"))
    \/ \E r \in Req, out \in EngineOutcomes(Rows, Rates),
          encoded_len \in EncoderResults : OpenaiReturn(r, out, encoded_len)

SpecStartup == InitStartup /\ [][NextStartup]_vars

(***************************************************************************)
(* Uploads: upload_reference_audio_endpoint and                            *)
(* upload_predefined_voice_endpoint run the same loop over the files of    *)
(* the request, each on its own directory.  A handler gives up the event   *)
(* loop only at `await file.close()`, once per file; an action is one      *)
(* iteration of the loop, or the code after the loop.                      *)
(***************************************************************************)
UploadReq == DOMAIN uploads

UploadEndpoints == {"/upload_reference", "/upload_predefined_voice"}

\* ref_path = get_reference_audio_path(...);
\* predefined_voices_path = get_predefined_voices_path(...)
DestinationDir(endpoint) ==
    IF endpoint = "/upload_reference" THEN "reference_audio"
    ELSE "predefined_voices"

\* file.filename of the files a client sends; "" is a part with no filename.
UploadFilenames == {"", "Olivia.wav", "new voice.MP3", "notes.txt"}

\* utils.sanitize_filename(file.filename): the name the file is stored
\* under; it differs from file.filename when that holds unsafe characters.
SanitizeFilename(filename) ==
    IF filename = "new voice.MP3" THEN "new_voice.MP3" ELSE filename

Suffix(name) ==
    CASE name = "Olivia.wav" -> ".wav"
      [] name = "new_voice.MP3" -> ".MP3"
      [] name = "notes.txt" -> ".txt"
      [] OTHER -> ""

\* str.lower() on the suffixes above
LowerSuffix(suffix) == IF suffix = ".MP3" THEN ".mp3" ELSE suffix

\* safe_filename.lower().endswith(".wav") or ....endswith(".mp3")
AllowedType(safe_filename) ==
    LowerSuffix(Suffix(safe_filename)) \in {".wav", ".mp3"}

\* An uploaded file: its filename, and what utils.validate_reference_audio
\* will say of its contents.
UploadFiles == [filename : UploadFilenames, is_valid : BOOLEAN]

ExistsNever(files, name) == FALSE

\* destination_path.exists()
Exists(files, name) == name \in DOMAIN files

\* open(destination_path, "wb"); shutil.copyfileobj(file.file, buffer)
WriteFile(files, name, content) ==
    [n \in DOMAIN files \cup {name} |-> IF n = name THEN content ELSE files[n]]

UnlinkSkipped(files, name) == files

\* destination_path.unlink(missing_ok=True)
Unlink(files, name) == [n \in DOMAIN files \ {name} |-> files[n]]

\* What one iteration of the loop does with a file, by the branch it takes.
FileOutcome(files, file) ==
    IF file.filename = "" THEN "no_filename"
    ELSE IF ~AllowedType(SanitizeFilename(file.filename)) THEN "invalid_type"
    ELSE IF Exists(files, SanitizeFilename(file.filename)) THEN "exists"
    ELSE IF file.is_valid THEN "valid"
    ELSE "invalid"

InList(list, x) == \E i \in DOMAIN list : list[i] = x

\* len(files) of the requests that have arrived; files: List[UploadFile] =
\* File(...) is a required parameter, so a request has at least one file.
FilesSent == SumSeq([u \in UploadReq |-> uploads[u].files])

UploadEnter(u, endpoint, count) ==
    /\ AcceptingRequests
    /\ count <= MaxFiles - FilesSent
    /\ loop_owner = NoTask
    /\ uploads[u].pc = "idle"
    /\ (IF u = 1 THEN TRUE ELSE uploads[u - 1].pc # "idle")
    /\ uploads' = [uploads EXCEPT ![u] =
                      [NoUpload EXCEPT !.pc = "loop", !.endpoint = endpoint,
                                       !.files = count]]
    /\ UNCHANGED <<MODEL_LOADED, startup, file_data, audio_processing,
                   predefined_files, reference_files, request_semaphore,
                   request_queue, performance_stats, now, cpu_count,
                   loop_owner, executor_queue, pc, request, locals, jobs,
                   gather_exc, response, disconnected, finalized, increments,
                   completed, handler_calls>>

\* One iteration of `for file in files:`.
UploadFile(u, file) ==
    LET up == uploads[u]
        dir == DestinationDir(up.endpoint)
        files == file_data[dir]
        safe_filename == SanitizeFilename(file.filename)
        outcome == FileOutcome(files, file)
        content == [request |-> u, item |-> Len(up.log) + 1]
        uploaded == up.uploaded_filenames_successfully
        stored ==
            CASE outcome = "valid" -> WriteFile(files, safe_filename, content)
              [] outcome = "invalid" ->
                   Unlink(WriteFile(files, safe_filename, content), safe_filename)
              [] OTHER -> files
    IN  /\ loop_owner = NoTask
        /\ up.pc = "loop"
        /\ Len(up.log) < up.files
        /\ file_data' = [file_data EXCEPT ![dir] = stored]
        /\ reference_files' = DOMAIN file_data'.reference_audio
        /\ predefined_files' = DOMAIN file_data'.predefined_voices
        /\ uploads' = [uploads EXCEPT
              ![u].log = Append(@, [filename |-> file.filename,
                                    safe_filename |-> safe_filename,
                                    outcome |-> outcome]),
              ![u].uploaded_filenames_successfully =
                  CASE outcome = "exists" ->
                         IF InList(uploaded, safe_filename) THEN uploaded
                         ELSE Append(uploaded, safe_filename)
                    [] outcome = "valid" -> Append(uploaded, safe_filename)
                    [] OTHER -> uploaded,
              ![u].upload_errors =
                  CASE outcome = "no_filename" ->
                         Append(@, [filename |-> "Unknown", error |-> "no_filename"])
                    [] outcome = "invalid_type" ->
                         Append(@, [filename |-> file.filename,
                                    error |-> "invalid_type"])
                    [] outcome = "invalid" ->
                         Append(@, [filename |-> safe_filename,
                                    error |-> "validation_failed"])
                    [] OTHER -> @]
        /\ UNCHANGED <<MODEL_LOADED, startup, audio_processing,
                       request_semaphore, request_queue, performance_stats,
                       now, cpu_count, loop_owner, executor_queue, pc, request,
                       locals, jobs, gather_exc, response, disconnected,
                       finalized, increments, completed, handler_calls>>

\* 200 if not upload_errors or len(uploaded_filenames_successfully) > 0 else 400
UploadStatusCode(uploaded, errors) ==
    IF errors = <<>> \/ Len(uploaded) > 0 THEN 200 ELSE 400

\* The code after the loop: the response is built and returned.
UploadReturn(u) ==
    /\ loop_owner = NoTask
    /\ uploads[u].pc = "loop"
    /\ Len(uploads[u].log) = uploads[u].files
    /\ uploads' = [uploads EXCEPT
          ![u].pc = "done",
          ![u].status_code =
              UploadStatusCode(uploads[u].uploaded_filenames_successfully,
                               uploads[u].upload_errors)]
    /\ UNCHANGED <<MODEL_LOADED, startup, file_data, audio_processing,
                   predefined_files, reference_files, request_semaphore,
                   request_queue, performance_stats, now, cpu_count,
                   loop_owner, executor_queue, pc, request, locals, jobs,
                   gather_exc, response, disconnected, finalized, increments,
                   completed, handler_calls>>

(***************************************************************************)
(* SpecUploads: MaxUploadReq upload requests of MaxFiles files in all, on   *)
(* either directory; the predefined voices hold DefaultVoice at start.     *)
(***************************************************************************)
InitUploads == InitWith(1, {TRUE}, {{DefaultVoice}}, {4})

NextUploads ==
    \/ \E u \in UploadReq, endpoint \in UploadEndpoints, count \in 1..MaxFiles :
          UploadEnter(u, endpoint, count)
    \/ \E u \in UploadReq, file \in UploadFiles : UploadFile(u, file)
    \/ \E u \in UploadReq : UploadReturn(u)

SpecUploads == InitUploads /\ [][NextUploads]_vars

(***************************************************************************)
(* Properties.                                                             *)
(***************************************************************************)

\* The /tts requests inside the synthesis pipeline: past the checks of
\* lines 661-711, response not yet produced.
InPipeline == {r \in Req : pc[r] \in {"tts_await", "tts_fold"}}

\* Every engine call in progress, on an executor thread or on the event
\* loop thread.
EngineCallsInProgress == Cardinality(WorkerCalls) + Cardinality(LoopEngineCalls)

\* C1: at most SemaphorePermits (20) requests are inside the synthesis
\* pipeline at the same time.
C1_PipelineBoundedByPermits == Cardinality(InPipeline) <= SemaphorePermits

\* C2: a request submitted while SemaphorePermits + QueueMaxsize requests
\* are already in the system (all permits held, the waiting queue full) is
\* answered 503 and no synthesis call is created for it.
C2_OverloadRejected ==
    [][\A r \in Req :
        (/\ pc[r] = "tts_read"
         /\ pc'[r] # "tts_read"
         /\ Cardinality(InPipeline) >= SemaphorePermits + QueueMaxsize)
        => (response'[r].status = 503 /\ jobs'[r] = <<>>)]_vars

\* C3: performance_stats["concurrent_requests"] equals the number of
\* admitted requests that have not completed.
C3_GaugeCountsInFlight ==
    performance_stats.concurrent_requests = Cardinality(InPipeline)

\* The rows the engine returned for the chunks k..N of request r,
\* concatenated in ascending chunk index.
RECURSIVE RowsInIndexOrder(_, _)
RowsInIndexOrder(r, k) ==
    IF k > Len(jobs[r]) THEN <<>>
    ELSE jobs[r][k].out.tensor[1] \o RowsInIndexOrder(r, k + 1)

\* C4: the audio of every successful /tts response is the concatenation of
\* its chunks' buffers in ascending chunk index, whatever the order in
\* which the chunk calls completed.
C4_AssembledInIndexOrder ==
    \A r \in Req :
        (request[r].endpoint = "/tts" /\ response[r].status = 200)
        => response[r].audio.data = RowsInIndexOrder(r, 1)

\* C4 witness: a successful two-chunk request whose second chunk completed
\* first and whose chunks differ.
C4_Witness ==
    \E r \in Req :
        /\ response[r].status = 200
        /\ completed[r] = <<2, 1>>
        /\ jobs[r][1].out.tensor # jobs[r][2].out.tensor

\* The chunks of r whose engine call returned the failure marker or raised.
FailedJobs(r) == {i \in DOMAIN jobs[r] : jobs[r][i].out.kind \in {"none", "raise"}}

\* C5: a /tts request with a failed chunk call ends with a chunk-failed
\* error that names a failed chunk, and returns no audio.
C5_ChunkFailureNamesChunk ==
    \A r \in Req :
        (request[r].endpoint = "/tts" /\ pc[r] = "done" /\ FailedJobs(r) # {})
        => /\ response[r].status # 200
           /\ response[r].audio = NoAudio
           /\ response[r].detail = "chunk_failed"
           /\ \E i \in FailedJobs(r) : response[r].chunk = ChunkLabel(i - 1)

\* The response times folded into avg_response_time so far.
Latencies == [k \in 1..Len(finalized) |-> finalized[k].response_time]

\* C6: avg_response_time is the arithmetic mean of the response times that
\* were folded into it.
C6_AvgIsMeanOfFinalized ==
    finalized # <<>>
    => performance_stats.avg_response_time[1] * Len(finalized)
         = SumSeq(Latencies) * performance_stats.avg_response_time[2]

\* The folds of history h applied one after the other to avg.
RECURSIVE Replay(_, _)
Replay(avg, h) ==
    IF h = <<>> THEN avg
    ELSE Replay(FoldAvg(avg, Head(h).n, Head(h).response_time), Tail(h))

\* C7: no update of performance_stats is lost: after k requests executed
\* the += 1 of line 654 total_requests is k, and avg_response_time is the
\* result of the folds executed so far, applied one after the other.
C7_NoLostUpdate ==
    /\ performance_stats.total_requests = increments
    /\ performance_stats.avg_response_time = Replay(Zero, finalized)

\* C7 witness: of two requests that overlapped, both counted, one has
\* folded its response time while the other is still in flight.
C7_Witness ==
    /\ increments = 2
    /\ Len(finalized) = 1
    /\ finalized[1].n = 2
    /\ finalized[1].response_time > 0
    /\ Cardinality(InPipeline) = 1

\* C8: no engine.synthesize call runs on the event loop thread.
C8_NoEngineCallOnLoopThread == LoopEngineCalls = {}

\* C9: at most ProcessingWorkers (8) engine calls execute at the same time.
C9_EngineCallsBoundedByPool == EngineCallsInProgress <= ProcessingWorkers

\* C10: every request in the pipeline holds one permit: free permits plus
\* requests in the pipeline is SemaphorePermits.
C10_PermitsConserved ==
    request_semaphore + Cardinality(InPipeline) = SemaphorePermits

\* C11: a request submitted while every permit is held (SemaphorePermits
\* requests in the pipeline) and the waiting queue has room is put at the
\* tail of the waiting queue and suspended: it does not enter the pipeline
\* and no synthesis call is created for it.
C11_QueuedWhenNoPermitFree ==
    [][\A r \in Req :
        (/\ pc[r] = "tts_read"
         /\ pc'[r] # "tts_read"
         /\ Cardinality(InPipeline) >= SemaphorePermits
         /\ Len(request_queue) < QueueMaxsize)
        => (/\ r \notin InPipeline'
            /\ jobs'[r] = <<>>
            /\ request_queue' # <<>>
            /\ request_queue'[Len(request_queue')] = r)]_vars

\* The /tts requests that passed the checks of lines 661-711 and entered
\* the synthesis pipeline, so far.
Admitted == {r \in Req : request[r].endpoint = "/tts" /\ jobs[r] # <<>>}

\* C12: total_requests equals the number of requests admitted so far; a
\* request rejected before any synthesis work starts is not counted.
C12_TotalCountsAdmitted ==
    performance_stats.total_requests = Cardinality(Admitted)

\* C13: no response carries audio whose encoded payload is missing or has
\* fewer than MinEncodedBytes (100) bytes, on /tts and on /v1/audio/speech.
C13_NoUndersizedAudio ==
    \A r \in Req :
        response[r].status = 200 => response[r].size >= MinEncodedBytes

\* At least SemaphorePermits requests that arrived before r are still in
\* the pipeline: under FIFO admission r cannot hold a permit yet.
ShouldWait(r) ==
    Cardinality({q \in InPipeline : q < r}) >= SemaphorePermits

\* C14: a request whose caller disconnected while every permit was held by
\* earlier requests does not enter the pipeline (acquires no permit) and no
\* engine call is started for it.
C14_DisconnectedWhileWaitingNeverRuns ==
    \A r \in Req :
        (disconnected[r] /\ ShouldWait(r))
        => (r \notin InPipeline /\ \A i \in DOMAIN jobs[r] : jobs[r][i].state = "queued")

\* C15: the sample rate handed to the encoder and reported with the audio
\* of a /tts request is the rate of its first chunk, and a request whose
\* chunk calls all returned audio fails only in concatenation or encoding,
\* never because a later chunk reported another rate.
C15_SampleRateFromFirstChunk ==
    \A r \in Req :
        (/\ request[r].endpoint = "/tts"
         /\ pc[r] = "done"
         /\ jobs[r] # <<>>
         /\ \A i \in DOMAIN jobs[r] : jobs[r][i].out.kind = "ok")
        => IF response[r].status = 200
           THEN response[r].sample_rate = jobs[r][1].out.sr
           ELSE response[r].detail \in {"concatenation_error", "encode_failed"}

\* C15 witness: a successful request whose second chunk reported another
\* rate than its first.
C15_Witness ==
    \E r \in Req :
        /\ response[r].status = 200
        /\ Len(jobs[r]) = 2
        /\ jobs[r][2].out.sr # jobs[r][1].out.sr

\* C16: a call of the stats endpoint changes none of total_requests,
\* avg_response_time, concurrent_requests and queue_size.
C16_StatsEndpointReadOnly ==
    [][GetPerformanceStats
        => /\ performance_stats'.total_requests = performance_stats.total_requests
           /\ performance_stats'.avg_response_time = performance_stats.avg_response_time
           /\ performance_stats'.concurrent_requests = performance_stats.concurrent_requests
           /\ performance_stats'.queue_size = performance_stats.queue_size]_vars

\* The voice file request r names is in neither voice directory.
UnknownVoice(r) ==
    /\ request[r].endpoint # ""
    /\ request[r].voice \notin predefined_files \cup reference_files

\* C17: while the model is loaded, a request that names a voice found in
\* neither voice directory is answered with an error that reports the
\* missing voice file, and no engine call is made for it.
C17_UnknownVoiceNotFound ==
    \A r \in Req :
        (MODEL_LOADED /\ UnknownVoice(r))
        => /\ \A i \in DOMAIN jobs[r] : jobs[r][i].state = "queued"
           /\ pc[r] # "openai_engine"
           /\ pc[r] = "done"
                => response[r].detail \in {"voice_not_found", "default_voice_missing"}

\* A stage of the pipeline of request r failed: a check at its admission
\* (lines 661-666, 676-680, 880-895), an engine call, the concatenation of
\* its segments, or its encoder, which returned None or, on /tts, fewer
\* than MinEncodedBytes bytes.
StageFailed(r) ==
    \/ /\ request[r].endpoint = "/tts"
       /\ \/ ~MODEL_LOADED
          \/ DefaultVoice \notin predefined_files
          \/ FailedJobs(r) # {}
          \/ /\ Len(jobs[r]) > 1
             /\ \A i \in DOMAIN jobs[r] : jobs[r][i].out.kind = "ok"
             /\ \E i \in DOMAIN jobs[r] : Squeeze(jobs[r][i].out.tensor).ndim = 0
          \/ \E k \in DOMAIN handler_calls[r].encoder :
                handler_calls[r].encoder[k] < MinEncodedBytes
    \/ /\ request[r].endpoint = "/v1/audio/speech"
       /\ \/ ~MODEL_LOADED
          \/ request[r].voice \notin predefined_files \cup reference_files
          \/ \E k \in DOMAIN handler_calls[r].engine :
                handler_calls[r].engine[k] \in {"none", "raise"}
          \/ \E k \in DOMAIN handler_calls[r].encoder :
                handler_calls[r].encoder[k] = NoValue

\* C18: every request that ended has exactly one outcome, a success stream
\* that carries audio or an error response that carries none, a request
\* that has not ended has none, and a request in which a stage failed ended
\* with an error response.
C18_ErrorsSurface ==
    \A r \in Req :
        IF pc[r] = "done"
        THEN /\ \/ response[r].status = 200 /\ response[r].audio # NoAudio
                \/ response[r].status >= 400 /\ response[r].audio = NoAudio
             /\ StageFailed(r) => response[r].status >= 400
        ELSE response[r] = NoResponse

\* C18 witness: a /tts request ended with an error response after its
\* encoder returned fewer than MinEncodedBytes bytes.
C18_Witness ==
    \E r \in Req :
        /\ pc[r] = "done"
        /\ response[r].status >= 400
        /\ request[r].endpoint = "/tts"
        /\ handler_calls[r].encoder # <<>>
        /\ handler_calls[r].encoder[1] \in 0..(MinEncodedBytes - 1)

\* C19: a /tts request that passed the model and voice checks and has zero
\* chunk results ends with an empty-input error; its encoder is never
\* called and it returns no audio.
C19_EmptyInputFails ==
    \A r \in Req :
        (/\ request[r].endpoint = "/tts"
         /\ pc[r] = "done"
         /\ MODEL_LOADED
         /\ DefaultVoice \in predefined_files
         /\ jobs[r] = <<>>)
        => /\ response[r].status >= 400
           /\ response[r].detail \in {"no_usable_chunks", "no_output"}
           /\ response[r].audio = NoAudio
           /\ handler_calls[r].encoder = <<>>

\* C19 witness: a request whose text gave no chunk ended with the
\* empty-input error.
C19_Witness ==
    \E r \in Req :
        /\ pc[r] = "done"
        /\ request[r].text = <<>>
        /\ jobs[r] = <<>>
        /\ response[r].detail = "no_usable_chunks"

\* Request r names an output format the encoders do not recognize.
UnrecognizedFormat(r) ==
    /\ request[r].endpoint = "/tts"
    /\ request[r].output_format # ""
    /\ Lower(request[r].output_format) \notin EncoderFormats

\* C20: a /tts request that names an unrecognized output format ends with
\* an error and no audio; when its audio reached the encoder, the error is
\* the encoding error and names that format.
C20_UnrecognizedFormatFails ==
    \A r \in Req :
        (UnrecognizedFormat(r) /\ pc[r] = "done")
        => /\ response[r].status >= 400
           /\ response[r].audio = NoAudio
           /\ handler_calls[r].encoder # <<>>
                => /\ response[r].detail = "encode_failed"
                   /\ response[r].format = request[r].output_format

\* C20 witness: the audio of a request for "flac" reached the encoder and
\* the request ended with the encoding error that names "flac".
C20_Witness ==
    \E r \in Req :
        /\ pc[r] = "done"
        /\ request[r].endpoint = "/tts"
        /\ request[r].output_format = "flac"
        /\ handler_calls[r].encoder # <<>>
        /\ response[r].format = "flac"

\* The speed factor request r asks for.
RequestedSpeed(r) ==
    IF request[r].endpoint = "/tts" THEN request[r].speed_factor ELSE request[r].speed

\* The post-processing stages request r asks for, in the fixed order:
\* speed factor, silence trimming, internal silence fix.
RequestedStages(r) ==
    (IF RequestedSpeed(r) # 1 THEN <<"apply_speed_factor">> ELSE <<>>)
    \o (IF audio_processing.enable_silence_trimming
        THEN <<"trim_lead_trail_silence">> ELSE <<>>)
    \o (IF audio_processing.enable_internal_silence_fix
        THEN <<"fix_internal_silence">> ELSE <<>>)

\* C21: the post-processing stages that ran on the audio of a successful
\* request are exactly the requested and enabled ones, in the fixed order.
C21_PostProcessingAsRequested ==
    \A r \in Req :
        (pc[r] = "done" /\ response[r].status = 200)
        => handler_calls[r].post = RequestedStages(r)

\* gather has a result or an exception for the handler of r: the handler
\* resumes as soon as the event loop thread is free.
GatherSettled(r) == gather_exc[r] # NoChunk \/ AllDone(r)

ReportedFailure(r) ==
    IF gather_exc[r] # NoChunk THEN gather_exc[r] ELSE response[r].chunk

C24_NoSynthesisWithoutModel ==
    ~MODEL_LOADED
    => /\ WorkerCalls = {}
       /\ LoopEngineCalls = {}
       /\ performance_stats.avg_response_time = InitialStats.avg_response_time
       /\ \A r \in Req :
            /\ jobs[r] = <<>>
            /\ handler_calls[r].engine = <<>>
            /\ pc[r] = "done"
                 => \/ response[r].status = 503
                    \/ /\ request[r].endpoint = "/v1/audio/speech"
                       /\ request[r].voice \notin predefined_files \cup reference_files
                       /\ response[r].status = 404

\* C24 witness: with the model not loaded, a /tts request and a
\* /v1/audio/speech request with an existing voice were both answered 503.
C24_Witness ==
    /\ ~MODEL_LOADED
    /\ \E r, q \in Req :
         /\ request[r].endpoint = "/tts"
         /\ request[q].endpoint = "/v1/audio/speech"
         /\ response[r].status = 503
         /\ response[q].status = 503

Count(list, x) == Cardinality({i \in DOMAIN list : list[i] = x})

\* The upload request whose handler ran an iteration of its loop in this step.
Iterated(u) == Len(uploads'[u].log) = Len(uploads[u].log) + 1

\* The file of that iteration had a filename, and the name it is stored
\* under was in the destination directory when the iteration began.
NameExisted(u) ==
    LET entry == uploads'[u].log[Len(uploads'[u].log)]
    IN  /\ entry.filename # ""
        /\ entry.safe_filename
              \in DOMAIN file_data[DestinationDir(uploads'[u].endpoint)]

C27_InvalidUploadsRemoved ==
    \A u \in UploadReq : uploads[u].pc = "done" =>
        LET up == uploads[u]
            files == file_data[DestinationDir(up.endpoint)]
        IN  /\ \A i \in DOMAIN up.log : up.log[i].outcome = "invalid" =>
                  /\ \A name \in DOMAIN files :
                        files[name] # [request |-> u, item |-> i]
                  /\ Count(up.uploaded_filenames_successfully,
                           up.log[i].safe_filename)
                        <= Cardinality({j \in DOMAIN up.log :
                              /\ up.log[j].safe_filename = up.log[i].safe_filename
                              /\ up.log[j].outcome \in {"valid", "exists"}})
                  /\ \E e \in DOMAIN up.upload_errors :
                        up.upload_errors[e].filename = up.log[i].safe_filename
            /\ up.status_code =
                  IF up.upload_errors # <<>>
                       /\ up.uploaded_filenames_successfully = <<>>
                    THEN 400 ELSE 200

\* One request returned 400 after its only file failed validation; another
\* returned 200 after a file failed validation and a file of the same name
\* was then stored.
C27_Witness ==
    \E u, v \in UploadReq :
        /\ uploads[u].pc = "done" /\ uploads[u].status_code = 400
        /\ Len(uploads[u].log) = 1 /\ uploads[u].log[1].outcome = "invalid"
        /\ uploads[v].pc = "done" /\ uploads[v].status_code = 200
        /\ Len(uploads[v].log) = 2
        /\ uploads[v].log[1].outcome = "invalid"
        /\ uploads[v].log[2].outcome = "valid"
        /\ uploads[v].log[1].safe_filename = uploads[v].log[2].safe_filename

====
